---- MODULE Spec2Model ----
(***************************************************************************)
(* A model of Source/DynamicScene/DynamicExternalDocument.js: the CZML     *)
(* packet processor, the aggregate merge and the unbind of the "external"  *)
(* document of a DynamicObject.                                            *)
(*                                                                         *)
(* A JavaScript value that may be undefined is modelled as a sequence of   *)
(* length at most one: <<>> is undefined and <<v>> is the value v.         *)
(* DynamicProperty objects live in a heap (the sequence properties) and    *)
(* the fields of a document hold indices into it, so that two documents    *)
(* can hold the very same property object, as mergeProperties makes them.  *)
(***************************************************************************)
EXTENDS Integers, Sequences, FiniteSets, TLC

\* ------------------------------------------------------------------------
\* Bounds of the model
\* ------------------------------------------------------------------------

\* Query times are 0..MaxTime; the unbounded interval is the whole range.
MaxTime == 1

\* Number of calls made in one behaviour.
MaxSteps == 3

Times == 0 .. MaxTime

\* The two DynamicObjects (entities) the calls are made on.
Entities == {"e1", "e2"}

\* ------------------------------------------------------------------------
\* JavaScript undefined
\* ------------------------------------------------------------------------

undefined == <<>>

Defined(v) == <<v>>

\* typeof x === 'undefined'
IsUndefined(x) == x = undefined

\* the value held by a defined x
ValueOf(x) == x[1]

\* defaultValue(a, b): a unless it is undefined, then b
defaultValue(a, b) == IF IsUndefined(a) THEN b ELSE a

\* ------------------------------------------------------------------------
\* TimeInterval
\* ------------------------------------------------------------------------

\* An ISO-8601 interval descriptor "start/stop" is the sequence of its
\* date tokens; it is well formed when it has exactly the two of them.
IsMalformed(iso) == Len(iso) # 2

\* TimeInterval.fromIso8601 of a well-formed descriptor
fromIso8601(iso) == [start |-> iso[1], stop |-> iso[2]]

\* the interval used when a packet carries none ("always")
MAXIMUM_INTERVAL == [start |-> 0, stop |-> MaxTime]

\* TimeInterval.contains
Contains(interval, t) == interval.start <= t /\ t <= interval.stop

\* ------------------------------------------------------------------------
\* DynamicProperty
\* ------------------------------------------------------------------------

\* The typed property values a DynamicProperty is declared with.
CzmlString == "CzmlString"

CzmlNumber == "CzmlNumber"

\* new DynamicProperty(valueType): no binding at any time
NewDynamicProperty(valueType) ==
    [valueType |-> valueType, intervals |-> [t \in Times |-> undefined]]

\* one fragment: its own interval when it carries one, the containing
\* interval otherwise; the new binding supersedes older ones where they overlap
AddFragment(property, fragment, constrainedInterval) ==
    LET interval == IF IsUndefined(fragment.interval)
                    THEN defaultValue(constrainedInterval, Defined(MAXIMUM_INTERVAL))
                    ELSE Defined(fromIso8601(ValueOf(fragment.interval)))
    IN  [property EXCEPT !.intervals =
            [t \in Times |-> IF Contains(ValueOf(interval), t)
                             THEN Defined(fragment.value)
                             ELSE property.intervals[t]]]

RECURSIVE AddFragments(_, _, _)
AddFragments(property, fragments, constrainedInterval) ==
    IF fragments = <<>>
    THEN property
    ELSE AddFragments(AddFragment(property, Head(fragments), constrainedInterval),
                      Tail(fragments), constrainedInterval)

\* DynamicProperty.processCzmlIntervals(czmlIntervals, constrainedInterval)
processCzmlIntervals(property, czmlIntervals, constrainedInterval) ==
    AddFragments(property, czmlIntervals, constrainedInterval)

\* DynamicProperty.getValue(time)
getValue(property, t) == property.intervals[t]

\* ------------------------------------------------------------------------
\* DynamicExternalDocument
\* ------------------------------------------------------------------------

\* new DynamicExternalDocument(): every field undefined
DynamicExternalDocument ==
    [polling |-> undefined, show |-> undefined, scope |-> undefined,
     refreshInterval |-> undefined, eventsource |-> undefined,
     eventname |-> undefined]

\* The steps of processCzmlPacket work on a frame
\*   [external: the document, props: the heap, externalUpdated: BOOLEAN].

\* ScopeStep without the guard on external.scope: every packet scope is stored
ScopeStepOverwrite(f, externalData) ==
    IF ~IsUndefined(externalData.scope)
    THEN [f EXCEPT !.external.scope = externalData.scope,
                   !.externalUpdated = TRUE]
    ELSE f

\* if (typeof externalData.scope !== 'undefined') { if (typeof external.scope
\* === 'undefined') { external.scope = ...; externalUpdated = true; } }
ScopeStep(f, externalData) ==
    IF ~IsUndefined(externalData.scope) /\ IsUndefined(f.external.scope)
    THEN [f EXCEPT !.external.scope = externalData.scope,
                   !.externalUpdated = TRUE]
    ELSE f

\* PollingStep that keeps one polling property for all documents: a
\* document without polling takes the first property made, when there is one
PollingStepReusesFirst(f, externalData, interval) ==
    LET create == IsUndefined(f.external.polling)
        props1 == IF create /\ f.props = <<>>
                  THEN Append(f.props, NewDynamicProperty(CzmlString))
                  ELSE f.props
        polling == IF create THEN 1 ELSE ValueOf(f.external.polling)
    IN  [external |-> [f.external EXCEPT !.polling = Defined(polling)],
         props |-> [props1 EXCEPT ![polling] =
                       processCzmlIntervals(props1[polling],
                           ValueOf(externalData.polling), interval)],
         externalUpdated |-> f.externalUpdated \/ create]

\* PollingStep that feeds the packet's data only to a property it creates
PollingStepFeedsOnCreate(f, externalData, interval) ==
    LET create == IsUndefined(f.external.polling)
        props1 == IF create
                  THEN Append(f.props, NewDynamicProperty(CzmlString))
                  ELSE f.props
        polling == IF create THEN Len(props1) ELSE ValueOf(f.external.polling)
    IN  [external |-> [f.external EXCEPT !.polling = Defined(polling)],
         props |-> IF create
                   THEN [props1 EXCEPT ![polling] =
                            processCzmlIntervals(props1[polling],
                                ValueOf(externalData.polling), interval)]
                   ELSE props1,
         externalUpdated |-> f.externalUpdated \/ create]

\* PollingStep that flags an update whenever polling data is fed
PollingStepFlagsFeed(f, externalData, interval) ==
    LET create == IsUndefined(f.external.polling)
        props1 == IF create
                  THEN Append(f.props, NewDynamicProperty(CzmlString))
                  ELSE f.props
        polling == IF create THEN Len(props1) ELSE ValueOf(f.external.polling)
    IN  [external |-> [f.external EXCEPT !.polling = Defined(polling)],
         props |-> [props1 EXCEPT ![polling] =
                       processCzmlIntervals(props1[polling],
                           ValueOf(externalData.polling), interval)],
         externalUpdated |-> TRUE]

\* var polling = external.polling; create it when undefined; then
\* polling.processCzmlIntervals(externalData.polling, interval)
PollingStep(f, externalData, interval) ==
    LET create == IsUndefined(f.external.polling)
        props1 == IF create
                  THEN Append(f.props, NewDynamicProperty(CzmlString))
                  ELSE f.props
        polling == IF create THEN Len(props1) ELSE ValueOf(f.external.polling)
    IN  [external |-> [f.external EXCEPT !.polling = Defined(polling)],
         props |-> [props1 EXCEPT ![polling] =
                       processCzmlIntervals(props1[polling],
                           ValueOf(externalData.polling), interval)],
         externalUpdated |-> f.externalUpdated \/ create]

\* RefreshIntervalStep with the feed moved out of the creation test, as the
\* polling property has it: an existing refreshInterval is fed too
RefreshIntervalStepFeeds(f, externalData, interval) ==
    IF ~IsUndefined(externalData.refreshInterval)
    THEN LET create == IsUndefined(f.external.refreshInterval)
             props1 == IF create
                       THEN Append(f.props, NewDynamicProperty(CzmlNumber))
                       ELSE f.props
             refreshInterval == IF create THEN Len(props1)
                                ELSE ValueOf(f.external.refreshInterval)
         IN  [external |-> [f.external EXCEPT
                               !.refreshInterval = Defined(refreshInterval)],
              props |-> [props1 EXCEPT ![refreshInterval] =
                            processCzmlIntervals(props1[refreshInterval],
                                ValueOf(externalData.refreshInterval), interval)],
              externalUpdated |-> f.externalUpdated \/ create]
    ELSE f

\* the refreshInterval block nested in the polling branch
RefreshIntervalStep(f, externalData, interval) ==
    IF ~IsUndefined(externalData.refreshInterval)
       /\ IsUndefined(f.external.refreshInterval)
    THEN LET props1 == Append(f.props,
                 processCzmlIntervals(NewDynamicProperty(CzmlNumber),
                     ValueOf(externalData.refreshInterval), interval))
         IN  [external |-> [f.external EXCEPT
                               !.refreshInterval = Defined(Len(props1))],
              props |-> props1,
              externalUpdated |-> TRUE]
    ELSE f

\* EventsourceStep that leaves a document with a polling property alone
EventsourceStepExclusive(f, externalData, interval) ==
    LET create == IsUndefined(f.external.eventsource)
        props1 == IF create
                  THEN Append(f.props, NewDynamicProperty(CzmlString))
                  ELSE f.props
        eventsource == IF create THEN Len(props1)
                       ELSE ValueOf(f.external.eventsource)
    IN  IF ~IsUndefined(f.external.polling)
        THEN f
        ELSE [external |-> [f.external EXCEPT
                               !.eventsource = Defined(eventsource)],
              props |-> [props1 EXCEPT ![eventsource] =
                            processCzmlIntervals(props1[eventsource],
                                ValueOf(externalData.eventsource), interval)],
              externalUpdated |-> f.externalUpdated \/ create]

\* var eventsource = external.eventsource; create it when undefined; then
\* eventsource.processCzmlIntervals(externalData.eventsource, interval)
EventsourceStep(f, externalData, interval) ==
    LET create == IsUndefined(f.external.eventsource)
        props1 == IF create
                  THEN Append(f.props, NewDynamicProperty(CzmlString))
                  ELSE f.props
        eventsource == IF create THEN Len(props1)
                       ELSE ValueOf(f.external.eventsource)
    IN  [external |-> [f.external EXCEPT !.eventsource = Defined(eventsource)],
         props |-> [props1 EXCEPT ![eventsource] =
                       processCzmlIntervals(props1[eventsource],
                           ValueOf(externalData.eventsource), interval)],
         externalUpdated |-> f.externalUpdated \/ create]

\* EventnameStep with the feed moved out of the creation test: an existing
\* eventname is fed too
EventnameStepFeeds(f, externalData, interval) ==
    IF ~IsUndefined(externalData.eventname)
    THEN LET create == IsUndefined(f.external.eventname)
             props1 == IF create
                       THEN Append(f.props, NewDynamicProperty(CzmlString))
                       ELSE f.props
             eventname == IF create THEN Len(props1)
                          ELSE ValueOf(f.external.eventname)
         IN  [external |-> [f.external EXCEPT
                               !.eventname = Defined(eventname)],
              props |-> [props1 EXCEPT ![eventname] =
                            processCzmlIntervals(props1[eventname],
                                ValueOf(externalData.eventname), interval)],
              externalUpdated |-> f.externalUpdated \/ create]
    ELSE f

\* the eventname block nested in the eventsource branch
EventnameStep(f, externalData, interval) ==
    IF ~IsUndefined(externalData.eventname)
       /\ IsUndefined(f.external.eventname)
    THEN LET props1 == Append(f.props,
                 processCzmlIntervals(NewDynamicProperty(CzmlString),
                     ValueOf(externalData.eventname), interval))
         IN  [external |-> [f.external EXCEPT
                               !.eventname = Defined(Len(props1))],
              props |-> props1,
              externalUpdated |-> TRUE]
    ELSE f

\* StrategyStep with the refreshInterval block after the polling branch
\* instead of inside it
StrategyStepRefreshOutside(f, externalData, interval) ==
    LET f1 == IF ~IsUndefined(externalData.polling)
              THEN PollingStep(f, externalData, interval)
              ELSE IF ~IsUndefined(externalData.eventsource)
                   THEN EventnameStep(EventsourceStep(f, externalData, interval),
                                      externalData, interval)
                   ELSE f
    IN  RefreshIntervalStep(f1, externalData, interval)

\* StrategyStep with a plain "if" where the code has "else if": a packet
\* that declares both strategies is handled by both branches
StrategyStepBoth(f, externalData, interval) ==
    LET f1 == IF ~IsUndefined(externalData.polling)
              THEN RefreshIntervalStep(PollingStep(f, externalData, interval),
                                       externalData, interval)
              ELSE f
    IN  IF ~IsUndefined(externalData.eventsource)
        THEN EventnameStep(EventsourceStep(f1, externalData, interval),
                           externalData, interval)
        ELSE f1

\* if (polling declared) {...} else if (eventsource declared) {...}
StrategyStep(f, externalData, interval) ==
    IF ~IsUndefined(externalData.polling)
    THEN RefreshIntervalStep(PollingStep(f, externalData, interval),
                             externalData, interval)
    ELSE IF ~IsUndefined(externalData.eventsource)
         THEN EventnameStep(EventsourceStep(f, externalData, interval),
                            externalData, interval)
         ELSE f

\* The outcome of a call is [external, properties, ret]: the documents of
\* the entities, the heap and what the call gave back ("throw" when it
\* raised an error instead of returning).
Outcome(ext, props, r) == [external |-> ext, properties |-> props, ret |-> r]

\* NoExternalData with the lazy creation of the document made before the
\* test of packet.external
NoExternalDataCreates(ext, props, o) ==
    Outcome(IF IsUndefined(ext[o])
            THEN [ext EXCEPT ![o] = Defined(DynamicExternalDocument)]
            ELSE ext,
            props, "false")

\* typeof externalData === 'undefined': return false
NoExternalData(ext, props, o) == Outcome(ext, props, "false")

\* ProcessExternalData with the scope assigned before the interval is
\* parsed: a malformed interval then leaves the scope assigned
ProcessExternalDataScopeFirst(ext, props, o, externalData) ==
    LET create == IsUndefined(ext[o])
        ext1 == IF create
                THEN [ext EXCEPT ![o] = Defined(DynamicExternalDocument)]
                ELSE ext
        f0 == [external |-> ValueOf(ext1[o]), props |-> props,
               externalUpdated |-> create]
        f1 == ScopeStep(f0, externalData)
    IN  IF ~IsUndefined(externalData.interval)
           /\ IsMalformed(ValueOf(externalData.interval))
        THEN Outcome([ext1 EXCEPT ![o] = Defined(f1.external)], props, "throw")
        ELSE LET interval ==
                     IF IsUndefined(externalData.interval)
                     THEN undefined
                     ELSE Defined(fromIso8601(ValueOf(externalData.interval)))
                 f2 == StrategyStep(f1, externalData, interval)
             IN  Outcome([ext1 EXCEPT ![o] = Defined(f2.external)], f2.props,
                         IF f2.externalUpdated THEN "true" ELSE "false")

\* the body of processCzmlPacket once packet.external is known to be there
ProcessExternalData(ext, props, o, externalData) ==
    LET create == IsUndefined(ext[o])
        ext1 == IF create
                THEN [ext EXCEPT ![o] = Defined(DynamicExternalDocument)]
                ELSE ext
    IN  IF ~IsUndefined(externalData.interval)
           /\ IsMalformed(ValueOf(externalData.interval))
        THEN \* TimeInterval.fromIso8601 throws; the document stays created
             Outcome(ext1, props, "throw")
        ELSE LET interval ==
                     IF IsUndefined(externalData.interval)
                     THEN undefined
                     ELSE Defined(fromIso8601(ValueOf(externalData.interval)))
                 f0 == [external |-> ValueOf(ext1[o]), props |-> props,
                        externalUpdated |-> create]
                 f1 == ScopeStep(f0, externalData)
                 f2 == StrategyStep(f1, externalData, interval)
             IN  Outcome([ext1 EXCEPT ![o] = Defined(f2.external)], f2.props,
                         IF f2.externalUpdated THEN "true" ELSE "false")

\* DynamicExternalDocument.processCzmlPacket(dynamicObject, packet)
ProcessCzmlPacket(ext, props, o, pkt) ==
    IF IsUndefined(pkt.external)
    THEN NoExternalData(ext, props, o)
    ELSE ProcessExternalData(ext, props, o, ValueOf(pkt.external))

\* MergePolling with the arguments of defaultValue exchanged: the source's
\* polling wins whenever it is there
MergePollingSourceFirst(targetExternal, externalToMerge) ==
    [targetExternal EXCEPT
        !.polling = defaultValue(externalToMerge.polling, targetExternal.polling)]

\* MergePolling that merges the scope the way it merges polling
MergePollingAndScope(targetExternal, externalToMerge) ==
    [targetExternal EXCEPT
        !.polling = defaultValue(targetExternal.polling, externalToMerge.polling),
        !.scope = defaultValue(targetExternal.scope, externalToMerge.scope)]

\* targetExternal.polling = defaultValue(targetExternal.polling,
\*                                       externalToMerge.polling)
MergePolling(targetExternal, externalToMerge) ==
    [targetExternal EXCEPT
        !.polling = defaultValue(targetExternal.polling, externalToMerge.polling)]

\* MergeProperties that creates the target's document only when the source
\* has a polling property to give
MergePropertiesNeedsPolling(ext, props, targetObject, objectToMerge) ==
    LET externalToMerge == ext[objectToMerge] IN
    IF ~IsUndefined(externalToMerge)
       /\ (~IsUndefined(ext[targetObject])
           \/ ~IsUndefined(ValueOf(externalToMerge).polling))
    THEN LET targetExternal ==
                 IF IsUndefined(ext[targetObject])
                 THEN DynamicExternalDocument
                 ELSE ValueOf(ext[targetObject])
         IN  Outcome([ext EXCEPT ![targetObject] =
                         Defined(MergePolling(targetExternal,
                                              ValueOf(externalToMerge)))],
                     props, "undefined")
    ELSE Outcome(ext, props, "undefined")

\* DynamicExternalDocument.mergeProperties(targetObject, objectToMerge)
MergeProperties(ext, props, targetObject, objectToMerge) ==
    LET externalToMerge == ext[objectToMerge] IN
    IF ~IsUndefined(externalToMerge)
    THEN LET targetExternal ==
                 IF IsUndefined(ext[targetObject])
                 THEN DynamicExternalDocument
                 ELSE ValueOf(ext[targetObject])
         IN  Outcome([ext EXCEPT ![targetObject] =
                         Defined(MergePolling(targetExternal,
                                              ValueOf(externalToMerge)))],
                     props, "undefined")
    ELSE Outcome(ext, props, "undefined")

\* UndefineProperties that empties the document instead of dropping it
UndefinePropertiesEmpties(ext, props, o) ==
    Outcome([ext EXCEPT ![o] = IF IsUndefined(ext[o])
                               THEN undefined
                               ELSE Defined(DynamicExternalDocument)],
            props, "undefined")

\* UndefineProperties that resets the two data sources of the document and
\* keeps the document with its scope, refreshInterval and eventname
UndefinePropertiesKeepsWriteOnce(ext, props, o) ==
    Outcome([ext EXCEPT ![o] =
                IF IsUndefined(ext[o])
                THEN undefined
                ELSE Defined([ValueOf(ext[o]) EXCEPT !.polling = undefined,
                                                     !.eventsource = undefined])],
            props, "undefined")

\* DynamicExternalDocument.undefineProperties(dynamicObject)
UndefineProperties(ext, props, o) ==
    Outcome([ext EXCEPT ![o] = undefined], props, "undefined")

\* ------------------------------------------------------------------------
\* Inputs
\* ------------------------------------------------------------------------

\* the well-formed interval descriptor of the packets: it starts after time
\* 0, so that it overlaps the unbounded interval on a proper sub-range
ValidInterval == <<1, MaxTime>>

\* a descriptor without the "/" separator
MalformedInterval == <<0>>

\* raw CZML data of a field: one constant-value fragment
Czml(v) == Defined(<<[interval |-> undefined, value |-> v]>>)

\* packet.external with the given fields
External(interval, scope, polling, refreshInterval, eventsource, eventname) ==
    [interval |-> interval, scope |-> scope, polling |-> polling,
     refreshInterval |-> refreshInterval, eventsource |-> eventsource,
     eventname |-> eventname]

\* packets that declare no acquisition strategy: an empty external
\* sub-structure, or nothing but a scope
ScopePackets ==
    {External(undefined, s, undefined, undefined, undefined, undefined) :
        s \in {undefined, Defined("A"), Defined("B")}}

\* polling packets, with or without a refreshInterval
PollingPackets ==
    {External(i, undefined, Czml(d[1]), d[2], undefined, undefined) :
        i \in {undefined, Defined(ValidInterval)},
        d \in {<<"url1", undefined>>, <<"url2", undefined>>,
               <<"url1", Czml(30)>>}}

\* eventsource packets, with or without an eventname
EventsourcePackets ==
    {External(i, undefined, undefined, undefined, Czml("stream1"), n) :
        i \in {undefined, Defined(ValidInterval)},
        n \in {undefined, Czml("name1")}}

\* packets that declare both strategies, a dependent field without its
\* strategy, or a scope together with a strategy and other data
MixedPackets ==
    {External(undefined, undefined, Czml("url1"), undefined,
              Czml("stream1"), Czml("name1")),
     External(undefined, undefined, undefined, Czml(30), undefined, undefined),
     External(undefined, undefined, undefined, undefined, undefined,
              Czml("name1")),
     External(undefined, Defined("B"), Czml("url2"), Czml(60),
              undefined, undefined),
     External(undefined, Defined("B"), undefined, undefined,
              Czml("stream1"), Czml("name2"))}

\* packets whose interval descriptor is malformed
MalformedPackets ==
    {External(Defined(MalformedInterval), undefined, undefined, undefined,
              undefined, undefined),
     External(Defined(MalformedInterval), Defined("A"), Czml("url1"), Czml(30),
              undefined, undefined)}

ExternalData ==
    ScopePackets \cup PollingPackets \cup EventsourcePackets
        \cup MixedPackets \cup MalformedPackets

NoPacket == [external |-> undefined]

Packets == {NoPacket} \cup {[external |-> Defined(d)] : d \in ExternalData}

\* ------------------------------------------------------------------------
\* State
\* ------------------------------------------------------------------------

VARIABLES
    external,       \* external[o]: dynamicObject.external of entity o
    properties,     \* the heap of DynamicProperty objects
    calls,          \* number of calls made so far
    op,             \* the last call: its function,
    dynamicObject,  \*   the entity it was made on (the target of a merge),
    objectToMerge,  \*   the source of a merge,
    packet,         \*   the packet of a processCzmlPacket,
    ret             \*   and what it gave back

\* The geometry collaborator, BoundingRectangle, is a set of functions
\* without state of their own: the variable holds the last call made to
\* it, with its arguments and its outcome.
VARIABLES
    geometry

\* What undefineProperties has taken away: removed[o].document is the
\* document (or undefined) that the last undefineProperties call on o found
\* in dynamicObject.external, and removed[o].pending says that no call has
\* changed dynamicObject.external of o since that call.
VARIABLES
    removed

\* no call to BoundingRectangle has been made
NoGeometryCall == [fn |-> "none"]

vars == <<external, properties, calls, op, dynamicObject, objectToMerge,
          packet, ret, geometry, removed>>

Init ==
    /\ external = [o \in Entities |-> undefined]
    /\ properties = <<>>
    /\ calls = 0
    /\ op = "none"
    /\ dynamicObject = "e1"
    /\ objectToMerge = "e1"
    /\ packet = NoPacket
    /\ ret = "undefined"
    /\ geometry = NoGeometryCall
    /\ removed = [o \in Entities |-> [document |-> undefined, pending |-> FALSE]]

\* a removal stops pending once dynamicObject.external of the entity changes
StillPending ==
    [o \in Entities |->
        [removed[o] EXCEPT !.pending = @ /\ external'[o] = external[o]]]

Apply(outcome) ==
    /\ external' = outcome.external
    /\ properties' = outcome.properties
    /\ ret' = outcome.ret
    /\ calls' = calls + 1
    /\ UNCHANGED geometry

processCzmlPacket(o, pkt) ==
    /\ calls < MaxSteps
    /\ Apply(ProcessCzmlPacket(external, properties, o, pkt))
    /\ op' = "processCzmlPacket"
    /\ dynamicObject' = o
    /\ objectToMerge' = o
    /\ packet' = pkt
    /\ removed' = StillPending

mergeProperties(targetObject, source) ==
    /\ calls < MaxSteps
    /\ Apply(MergeProperties(external, properties, targetObject, source))
    /\ op' = "mergeProperties"
    /\ dynamicObject' = targetObject
    /\ objectToMerge' = source
    /\ packet' = NoPacket
    /\ removed' = StillPending

undefineProperties(o) ==
    /\ calls < MaxSteps
    /\ Apply(UndefineProperties(external, properties, o))
    /\ op' = "undefineProperties"
    /\ dynamicObject' = o
    /\ objectToMerge' = o
    /\ packet' = NoPacket
    /\ removed' = [removed EXCEPT
                       ![o] = [document |-> external[o], pending |-> TRUE]]

Next ==
    \/ \E o \in Entities, pkt \in Packets : processCzmlPacket(o, pkt)
    \/ \E t \in Entities, s \in Entities : mergeProperties(t, s)
    \/ \E o \in Entities : undefineProperties(o)

Spec == Init /\ [][Next]_vars

\* ------------------------------------------------------------------------
\* Reading the state
\* ------------------------------------------------------------------------

PropertyFields == {"polling", "refreshInterval", "eventsource", "eventname"}

\* dynamicObject.external has a document
HasDocument(ext, o) == ~IsUndefined(ext[o])

\* the field fld of the document of o; undefined when o has no document
FieldOf(ext, o, fld) ==
    IF IsUndefined(ext[o]) THEN undefined ELSE ValueOf(ext[o])[fld]

\* the DynamicProperty object held by the field fld of the document of o
PropertyOf(ext, props, o, fld) ==
    IF IsUndefined(FieldOf(ext, o, fld))
    THEN undefined
    ELSE Defined(props[ValueOf(FieldOf(ext, o, fld))])

\* what a query of the field fld of o at time t resolves to
Resolve(ext, props, o, fld, t) ==
    IF IsUndefined(FieldOf(ext, o, fld))
    THEN undefined
    ELSE getValue(props[ValueOf(FieldOf(ext, o, fld))], t)

\* the last call was processCzmlPacket with an external sub-structure
ProcessedExternal ==
    op = "processCzmlPacket" /\ ~IsUndefined(packet.external)

\* the interval of the packet's external data is absent or well formed
WellFormed(externalData) ==
    IsUndefined(externalData.interval)
    \/ ~IsMalformed(ValueOf(externalData.interval))

\* the times the packet's interval covers (all of them when it has none)
Covers(externalData, t) ==
    IF IsUndefined(externalData.interval)
    THEN TRUE
    ELSE Contains(fromIso8601(ValueOf(externalData.interval)), t)

\* the value of the single constant fragment of a field's raw data
Constant(czml) == ValueOf(czml)[1].value

\* ------------------------------------------------------------------------
\* Claims
\* ------------------------------------------------------------------------

\* C1: scope is write-once. Once the document of an entity has a scope, a
\* processCzmlPacket call (whatever scope its packet carries) leaves the
\* document in place with the scope it had.
C1_ScopeWriteOnce ==
    [][\A o \in Entities :
          (/\ ~IsUndefined(FieldOf(external, o, "scope"))
           /\ op' = "processCzmlPacket")
          => FieldOf(external', o, "scope") = FieldOf(external, o, "scope")]_vars

\* C1 witness: a packet carrying scope "B" has been processed on an entity
\* whose document still has scope "A"
C1_Witness ==
    /\ ProcessedExternal
    /\ ValueOf(packet.external).scope = Defined("B")
    /\ ret = "false"
    /\ FieldOf(external, dynamicObject, "scope") = Defined("A")

\* C2: processCzmlPacket on a packet without external sub-structure returns
\* false and changes neither any document nor any property.
C2_NoExternalNoChange ==
    [][(op' = "processCzmlPacket" /\ IsUndefined(packet'.external))
          => (/\ ret' = "false"
              /\ external' = external
              /\ properties' = properties)]_vars

\* C2 witness: such a packet has been processed on an entity that has no
\* document while the other entity has a populated one
C2_Witness ==
    /\ op = "processCzmlPacket"
    /\ IsUndefined(packet.external)
    /\ ret = "false"
    /\ ~HasDocument(external, dynamicObject)
    /\ \E o \in Entities : ~IsUndefined(FieldOf(external, o, "polling"))

\* the call made by this step created the field fld of the document of o
Created(o, fld) ==
    /\ IsUndefined(FieldOf(external, o, fld))
    /\ ~IsUndefined(FieldOf(external', o, fld))

\* the call made by this step changed the structure of the document of o
StructuralChange(o) ==
    \/ ~HasDocument(external, o) /\ HasDocument(external', o)
    \/ Created(o, "scope")
    \/ \E fld \in PropertyFields : Created(o, fld)

\* this step is a processCzmlPacket call on a packet with an external
\* sub-structure whose interval is absent or well formed
ProcessesWellFormed ==
    /\ op' = "processCzmlPacket"
    /\ ~IsUndefined(packet'.external)
    /\ WellFormed(ValueOf(packet'.external))

\* C3: on a packet with an external sub-structure and a well-formed or
\* absent interval, processCzmlPacket returns true exactly when it created
\* the document, assigned an unset scope or created one of the four
\* properties; otherwise (feeding existing properties included) false.
C3_ReturnsStructuralChange ==
    [][ProcessesWellFormed
          => (/\ ret' \in {"true", "false"}
              /\ (ret' = "true") <=> StructuralChange(dynamicObject'))]_vars

\* C3 witness: a packet fed polling data on a sub-range to a polling
\* property that already held another value, and the call returned false
C3_Witness ==
    /\ ProcessedExternal
    /\ ret = "false"
    /\ ~IsUndefined(ValueOf(packet.external).polling)
    /\ ValueOf(packet.external).interval = Defined(ValidInterval)
    /\ Resolve(external, properties, dynamicObject, "polling", MaxTime)
           = Defined(Constant(ValueOf(packet.external).polling))
    /\ ~IsUndefined(Resolve(external, properties, dynamicObject, "polling", 0))
    /\ Resolve(external, properties, dynamicObject, "polling", 0)
           # Defined(Constant(ValueOf(packet.external).polling))

\* C4: a packet that declares both polling and eventsource leaves the
\* eventsource and eventname fields of the document, and the properties
\* they hold, exactly as they were (absent when there was no document).
C4_PollingPrecedence ==
    [][(/\ op' = "processCzmlPacket"
        /\ ~IsUndefined(packet'.external)
        /\ ~IsUndefined(ValueOf(packet'.external).polling)
        /\ ~IsUndefined(ValueOf(packet'.external).eventsource))
          => \A fld \in {"eventsource", "eventname"} :
                /\ FieldOf(external', dynamicObject', fld)
                       = FieldOf(external, dynamicObject', fld)
                /\ PropertyOf(external', properties', dynamicObject', fld)
                       = PropertyOf(external, properties, dynamicObject', fld)
       ]_vars

\* C4 witness: a packet declaring polling, eventsource and eventname was
\* processed on a document whose eventsource exists and is still unbound at
\* time 0 (the packet has no interval) and which still has no eventname
C4_Witness ==
    /\ ProcessedExternal
    /\ ~IsUndefined(ValueOf(packet.external).polling)
    /\ ~IsUndefined(ValueOf(packet.external).eventsource)
    /\ ~IsUndefined(ValueOf(packet.external).eventname)
    /\ IsUndefined(ValueOf(packet.external).interval)
    /\ ~IsUndefined(FieldOf(external, dynamicObject, "polling"))
    /\ ~IsUndefined(FieldOf(external, dynamicObject, "eventsource"))
    /\ IsUndefined(Resolve(external, properties, dynamicObject, "eventsource", 0))
    /\ IsUndefined(FieldOf(external, dynamicObject, "eventname"))

\* C5: a packet that declares eventsource and no polling, processed on a
\* document that already has a polling property, leaves the document with
\* an eventsource bound to the packet's value over the packet's interval,
\* and with the polling property it had.
C5_CrossPacketMixing ==
    [][(/\ ProcessesWellFormed
        /\ IsUndefined(ValueOf(packet'.external).polling)
        /\ ~IsUndefined(ValueOf(packet'.external).eventsource)
        /\ ~IsUndefined(FieldOf(external, dynamicObject', "polling")))
          => (/\ ~IsUndefined(FieldOf(external', dynamicObject', "eventsource"))
              /\ \A t \in Times :
                    Covers(ValueOf(packet'.external), t)
                    => Resolve(external', properties', dynamicObject',
                               "eventsource", t)
                         = Defined(Constant(ValueOf(packet'.external).eventsource))
              /\ PropertyOf(external', properties', dynamicObject', "polling")
                    = PropertyOf(external, properties, dynamicObject', "polling"))
       ]_vars

\* C5 witness: an eventsource-only packet has just created the eventsource
\* of a document whose polling property is bound: both are populated
C5_Witness ==
    /\ ProcessedExternal
    /\ IsUndefined(ValueOf(packet.external).polling)
    /\ ~IsUndefined(ValueOf(packet.external).eventsource)
    /\ ret = "true"
    /\ \E t \in Times :
          ~IsUndefined(Resolve(external, properties, dynamicObject, "polling", t))
    /\ \E t \in Times :
          ~IsUndefined(Resolve(external, properties, dynamicObject,
                               "eventsource", t))

\* after this step the field fld of o is bound to the constant of the raw
\* data czml over the interval of the packet, and nowhere else
PopulatedFrom(o, fld, czml) ==
    \A t \in Times :
        Resolve(external', properties', o, fld, t)
          = IF Covers(ValueOf(packet'.external), t)
            THEN Defined(Constant(czml))
            ELSE undefined

\* after this step the field fld of o resolves to the constant of the raw
\* data czml at every time of the interval of the packet
FedWith(o, fld, czml) ==
    \A t \in Times :
        Covers(ValueOf(packet'.external), t)
        => Resolve(external', properties', o, fld, t) = Defined(Constant(czml))

\* this step leaves the field fld of o and the property it holds as they were
Untouched(o, fld) ==
    /\ FieldOf(external', o, fld) = FieldOf(external, o, fld)
    /\ PropertyOf(external', properties', o, fld)
          = PropertyOf(external, properties, o, fld)

\* C6: refreshInterval is write-once. A step creates the refreshInterval of
\* a document only as a processCzmlPacket call on that entity whose packet
\* declares polling and refreshInterval, and binds it to the packet's data;
\* once it exists, no processCzmlPacket call changes the field or the
\* bindings of its property, while polling data is still fed.
C6_RefreshIntervalWriteOnce ==
    [][\A o \in Entities :
          /\ Created(o, "refreshInterval")
               => (/\ ProcessesWellFormed
                   /\ dynamicObject' = o
                   /\ ~IsUndefined(ValueOf(packet'.external).polling)
                   /\ ~IsUndefined(ValueOf(packet'.external).refreshInterval)
                   /\ PopulatedFrom(o, "refreshInterval",
                          ValueOf(packet'.external).refreshInterval))
          /\ (/\ ~IsUndefined(FieldOf(external, o, "refreshInterval"))
              /\ op' = "processCzmlPacket")
               => Untouched(o, "refreshInterval")
          /\ (/\ ~IsUndefined(FieldOf(external, o, "refreshInterval"))
              /\ ProcessesWellFormed
              /\ dynamicObject' = o
              /\ ~IsUndefined(ValueOf(packet'.external).polling))
               => FedWith(o, "polling", ValueOf(packet'.external).polling)
       ]_vars

\* C6 witness: a packet declaring polling and a refreshInterval has been
\* processed, the polling property resolves to the packet's value and the
\* refreshInterval still resolves to another, older value
C6_Witness ==
    /\ ProcessedExternal
    /\ ~IsUndefined(ValueOf(packet.external).polling)
    /\ ~IsUndefined(ValueOf(packet.external).refreshInterval)
    /\ Resolve(external, properties, dynamicObject, "polling", MaxTime)
          = Defined(Constant(ValueOf(packet.external).polling))
    /\ ~IsUndefined(Resolve(external, properties, dynamicObject,
                            "refreshInterval", MaxTime))
    /\ Resolve(external, properties, dynamicObject, "refreshInterval", MaxTime)
          # Defined(Constant(ValueOf(packet.external).refreshInterval))

\* C7: eventname is write-once. A step creates the eventname of a document
\* only as a processCzmlPacket call on that entity whose packet declares
\* eventsource and eventname and no polling, and binds it to the packet's
\* data; once it exists, no processCzmlPacket call changes the field or the
\* bindings of its property, while eventsource data is still fed.
C7_EventnameWriteOnce ==
    [][\A o \in Entities :
          /\ Created(o, "eventname")
               => (/\ ProcessesWellFormed
                   /\ dynamicObject' = o
                   /\ IsUndefined(ValueOf(packet'.external).polling)
                   /\ ~IsUndefined(ValueOf(packet'.external).eventsource)
                   /\ ~IsUndefined(ValueOf(packet'.external).eventname)
                   /\ PopulatedFrom(o, "eventname",
                          ValueOf(packet'.external).eventname))
          /\ (/\ ~IsUndefined(FieldOf(external, o, "eventname"))
              /\ op' = "processCzmlPacket")
               => Untouched(o, "eventname")
          /\ (/\ ~IsUndefined(FieldOf(external, o, "eventname"))
              /\ ProcessesWellFormed
              /\ dynamicObject' = o
              /\ IsUndefined(ValueOf(packet'.external).polling)
              /\ ~IsUndefined(ValueOf(packet'.external).eventsource))
               => FedWith(o, "eventsource", ValueOf(packet'.external).eventsource)
       ]_vars

\* C7 witness: an eventsource packet with an eventname has been processed,
\* the eventsource is bound at time 0 by this packet (it has no interval)
\* and the eventname still resolves to another, older value
C7_Witness ==
    /\ ProcessedExternal
    /\ IsUndefined(ValueOf(packet.external).polling)
    /\ ~IsUndefined(ValueOf(packet.external).eventsource)
    /\ ~IsUndefined(ValueOf(packet.external).eventname)
    /\ Resolve(external, properties, dynamicObject, "eventsource", 0)
          = Defined(Constant(ValueOf(packet.external).eventsource))
    /\ ~IsUndefined(Resolve(external, properties, dynamicObject,
                            "eventname", MaxTime))
    /\ Resolve(external, properties, dynamicObject, "eventname", MaxTime)
          # Defined(Constant(ValueOf(packet.external).eventname))

\* C8: last-applied-wins within polling. A packet with polling data
\* processed on a document that already has a polling property binds every
\* time of its interval to its own value, whatever was bound there, and
\* leaves the older bindings outside its interval.
C8_PollingLastAppliedWins ==
    [][(/\ ProcessesWellFormed
        /\ ~IsUndefined(ValueOf(packet'.external).polling)
        /\ ~IsUndefined(FieldOf(external, dynamicObject', "polling")))
          => \A t \in Times :
                Resolve(external', properties', dynamicObject', "polling", t)
                  = IF Covers(ValueOf(packet'.external), t)
                    THEN Defined(Constant(ValueOf(packet'.external).polling))
                    ELSE Resolve(external, properties, dynamicObject',
                                 "polling", t)
       ]_vars

\* C8 witness: "url1" was bound over all times, then a packet bound "url2"
\* over the sub-range 1..MaxTime: the overlap resolves to "url2", time 0
\* still to "url1"
C8_Witness ==
    /\ ProcessedExternal
    /\ ValueOf(packet.external).polling = Czml("url2")
    /\ ValueOf(packet.external).interval = Defined(ValidInterval)
    /\ Resolve(external, properties, dynamicObject, "polling", 0)
          = Defined("url1")
    /\ \A t \in 1 .. MaxTime :
          Resolve(external, properties, dynamicObject, "polling", t)
            = Defined("url2")

\* C9: mergeProperties is first-writer-wins on polling. When the source has
\* a document, a target without polling ends with the source's polling (the
\* same property object, or none when the source has none) and a target
\* with polling keeps the property object it had.
C9_MergePollingFirstWriterWins ==
    [][(/\ op' = "mergeProperties"
        /\ HasDocument(external, objectToMerge'))
          => (/\ HasDocument(external', dynamicObject')
              /\ FieldOf(external', dynamicObject', "polling")
                    = IF IsUndefined(FieldOf(external, dynamicObject', "polling"))
                      THEN FieldOf(external, objectToMerge', "polling")
                      ELSE FieldOf(external, dynamicObject', "polling")
              /\ properties' = properties)
       ]_vars

\* C9 witness: a merge between two entities has left the target holding
\* the very property object the source holds, and that property is bound
C9_Witness ==
    /\ op = "mergeProperties"
    /\ dynamicObject # objectToMerge
    /\ ~IsUndefined(FieldOf(external, objectToMerge, "polling"))
    /\ FieldOf(external, dynamicObject, "polling")
          = FieldOf(external, objectToMerge, "polling")
    /\ ~IsUndefined(Resolve(external, properties, dynamicObject, "polling", 0))

C11_MergeCreatesTargetDocument ==
    [][(op' = "mergeProperties")
          => IF ~HasDocument(external, objectToMerge')
             THEN /\ external' = external
                  /\ properties' = properties
             ELSE ~HasDocument(external, dynamicObject')
                  => external'[dynamicObject']
                       = Defined([DynamicExternalDocument EXCEPT
                            !.polling = FieldOf(external, objectToMerge',
                                                "polling")])
       ]_vars

\* C11 witness: a merge from a source whose document has no polling has
\* left the target with a document in which every field is undefined
C11_Witness ==
    /\ op = "mergeProperties"
    /\ dynamicObject # objectToMerge
    /\ HasDocument(external, objectToMerge)
    /\ IsUndefined(FieldOf(external, objectToMerge, "polling"))
    /\ ~IsUndefined(FieldOf(external, objectToMerge, "scope"))
    /\ external[dynamicObject] = Defined(DynamicExternalDocument)

\* C12: undefineProperties returns normally and leaves its entity without a
\* document, whatever the document was; the documents of the other
\* entities and every property object stay as they were, so a polling
\* property merged from this entity still resolves as before on its target.
C12_UndefineRemovesDocument ==
    [][(op' = "undefineProperties")
          => (/\ ret' = "undefined"
              /\ ~HasDocument(external', dynamicObject')
              /\ \A o \in Entities \ {dynamicObject'} :
                    /\ external'[o] = external[o]
                    /\ \A t \in Times :
                          Resolve(external', properties', o, "polling", t)
                            = Resolve(external, properties, o, "polling", t)
              /\ properties' = properties)
       ]_vars

\* C12 witness: the entity has lost its document while the other entity
\* holds, bound, the polling property that one packet created together with
\* a refreshInterval that the other entity does not have: the polling came
\* to it by a merge from the entity whose document is now removed
C12_Witness ==
    /\ op = "undefineProperties"
    /\ ~HasDocument(external, dynamicObject)
    /\ Len(properties) = 2
    /\ properties[2].valueType = CzmlNumber
    /\ \E o \in Entities \ {dynamicObject} :
          /\ FieldOf(external, o, "polling") = Defined(1)
          /\ IsUndefined(FieldOf(external, o, "refreshInterval"))
          /\ ~IsUndefined(Resolve(external, properties, o, "polling", 0))

\* this step is a processCzmlPacket call on a packet whose external
\* sub-structure has a malformed interval
ProcessesMalformed ==
    /\ op' = "processCzmlPacket"
    /\ ~IsUndefined(packet'.external)
    /\ ~WellFormed(ValueOf(packet'.external))

\* this step raised an error, left the entity with a document, and neither
\* created nor fed a property, nor touched another entity
FailedBeforeStrategy ==
    /\ ret' = "throw"
    /\ HasDocument(external', dynamicObject')
    /\ \A fld \in PropertyFields :
          FieldOf(external', dynamicObject', fld)
            = FieldOf(external, dynamicObject', fld)
    /\ properties' = properties
    /\ \A o \in Entities \ {dynamicObject'} : external'[o] = external[o]

\* C13 as claimed: on a malformed interval the call fails, the document has
\* been created, a packet scope has been assigned to a previously unset
\* scope, and no property has been created or fed.
C13_MalformedAfterScope ==
    [][ProcessesMalformed
          => (/\ FailedBeforeStrategy
              /\ (/\ ~IsUndefined(ValueOf(packet'.external).scope)
                  /\ IsUndefined(FieldOf(external, dynamicObject', "scope")))
                   => FieldOf(external', dynamicObject', "scope")
                        = ValueOf(packet'.external).scope)
       ]_vars

\* C13 amended: on a malformed interval the call fails, the document has
\* been created, and nothing else has happened: the scope is what it was
\* (undefined in a document the call created), whatever scope the packet
\* carries, and no property has been created or fed.
C13_MalformedBeforeScope ==
    [][ProcessesMalformed
          => (/\ FailedBeforeStrategy
              /\ FieldOf(external', dynamicObject', "scope")
                   = FieldOf(external, dynamicObject', "scope"))
       ]_vars

\* C13 witness: a packet with a malformed interval and a scope has failed
\* on an entity that is left with a document without scope
C13_Witness ==
    /\ ProcessedExternal
    /\ ~WellFormed(ValueOf(packet.external))
    /\ ~IsUndefined(ValueOf(packet.external).scope)
    /\ ret = "throw"
    /\ HasDocument(external, dynamicObject)
    /\ IsUndefined(FieldOf(external, dynamicObject, "scope"))

\* a refreshInterval comes with a polling and an eventname with an
\* eventsource, in the document of every entity
DependentFieldsHaveStrategy ==
    \A o \in Entities :
        /\ ~IsUndefined(FieldOf(external, o, "refreshInterval"))
             => ~IsUndefined(FieldOf(external, o, "polling"))
        /\ ~IsUndefined(FieldOf(external, o, "eventname"))
             => ~IsUndefined(FieldOf(external, o, "eventsource"))

\* C18: in every reachable state a document with a refreshInterval has a
\* polling and a document with an eventname has an eventsource; and a
\* packet that declares refreshInterval without polling, or eventname
\* without eventsource, does not create that field.
C18_DependentFieldsHaveStrategy ==
    /\ []DependentFieldsHaveStrategy
    /\ [][(op' = "processCzmlPacket" /\ ~IsUndefined(packet'.external))
            => (/\ (/\ ~IsUndefined(ValueOf(packet'.external).refreshInterval)
                    /\ IsUndefined(ValueOf(packet'.external).polling))
                     => ~Created(dynamicObject', "refreshInterval")
                /\ (/\ ~IsUndefined(ValueOf(packet'.external).eventname)
                    /\ IsUndefined(ValueOf(packet'.external).eventsource))
                     => ~Created(dynamicObject', "eventname"))
         ]_vars

\* C18 witness: a packet declaring a refreshInterval and no polling has
\* been processed, and the document it created has neither
C18_Witness ==
    /\ ProcessedExternal
    /\ ~IsUndefined(ValueOf(packet.external).refreshInterval)
    /\ IsUndefined(ValueOf(packet.external).polling)
    /\ ret = "true"
    /\ HasDocument(external, dynamicObject)
    /\ IsUndefined(FieldOf(external, dynamicObject, "refreshInterval"))
    /\ IsUndefined(FieldOf(external, dynamicObject, "polling"))

\* this step leaves what the polling of o resolves to, at every time
PollingResolvesAsBefore(o) ==
    \A t \in Times :
        Resolve(external', properties', o, "polling", t)
          = Resolve(external, properties, o, "polling", t)

\* before this step o and p hold the very same polling property object
SharePolling(o, p) ==
    /\ ~IsUndefined(FieldOf(external, o, "polling"))
    /\ FieldOf(external, o, "polling") = FieldOf(external, p, "polling")

\* C19 as claimed: a processCzmlPacket call on one entity does not change
\* the value that the polling of the other entity resolves to at any time.
C19_OtherPollingNeverChanges ==
    [][(op' = "processCzmlPacket")
          => \A o \in Entities \ {dynamicObject'} : PollingResolvesAsBefore(o)
       ]_vars

\* C19 amended: a processCzmlPacket call on one entity leaves the document
\* of the other entity as it was, and leaves what the other entity's
\* polling resolves to unless the two documents hold the same polling
\* property object, as they do after a mergeProperties.
C19_OtherPollingChangesOnlyIfShared ==
    [][(op' = "processCzmlPacket")
          => \A o \in Entities \ {dynamicObject'} :
                /\ external'[o] = external[o]
                /\ ~SharePolling(o, dynamicObject') => PollingResolvesAsBefore(o)
       ]_vars

\* C19 witness: a packet has fed "url2" to the polling of one entity while
\* the other entity, which holds another polling property object, still
\* resolves to "url1" at all times
C19_Witness ==
    /\ ProcessedExternal
    /\ ValueOf(packet.external).polling = Czml("url2")
    /\ \A t \in Times :
          Covers(ValueOf(packet.external), t)
          => Resolve(external, properties, dynamicObject, "polling", t)
               = Defined("url2")
    /\ \E o \in Entities \ {dynamicObject} :
          /\ ~IsUndefined(FieldOf(external, o, "polling"))
          /\ FieldOf(external, o, "polling")
                # FieldOf(external, dynamicObject, "polling")
          /\ \A t \in Times :
                Resolve(external, properties, o, "polling", t) = Defined("url1")

\* the property objects of the document of o after this step were all made
\* by this step
FreshProperties(o) ==
    \A fld \in PropertyFields :
        \/ IsUndefined(FieldOf(external', o, fld))
        \/ ValueOf(FieldOf(external', o, fld)) > Len(properties)

\* C20: write-once lasts only as long as the document. After
\* undefineProperties on an entity, the next processCzmlPacket call on it
\* with an external sub-structure (interval absent or well formed) finds no
\* document, creates one whose properties are all new, returns true, gives
\* the document the scope of the packet, and binds a refreshInterval (with
\* polling) or an eventname (with eventsource, without polling) of the
\* packet to the packet's data alone, whatever the removed document held.
C20_WriteOnceEndsWithDocument ==
    [][\A o \in Entities :
          (removed[o].pending /\ ProcessesWellFormed /\ dynamicObject' = o)
          => LET externalData == ValueOf(packet'.external)
             IN  /\ ret' = "true"
                 /\ ~HasDocument(external, o)
                 /\ HasDocument(external', o)
                 /\ FreshProperties(o)
                 /\ FieldOf(external', o, "scope") = externalData.scope
                 /\ (~IsUndefined(externalData.polling)
                        /\ ~IsUndefined(externalData.refreshInterval))
                    => PopulatedFrom(o, "refreshInterval",
                                     externalData.refreshInterval)
                 /\ (IsUndefined(externalData.polling)
                        /\ ~IsUndefined(externalData.eventsource)
                        /\ ~IsUndefined(externalData.eventname))
                    => PopulatedFrom(o, "eventname", externalData.eventname)
       ]_vars

\* C20 witness: the document taken from the entity had no scope and a
\* refreshInterval of 30; the packet processed since has made a new
\* document with scope "B" and a refreshInterval, another property object,
\* that resolves to 60, and the call returned true
C20_Witness ==
    /\ ProcessedExternal
    /\ ret = "true"
    /\ ~removed[dynamicObject].pending
    /\ ~IsUndefined(removed[dynamicObject].document)
    /\ LET old == ValueOf(removed[dynamicObject].document)
       IN  /\ IsUndefined(old.scope)
           /\ ~IsUndefined(old.refreshInterval)
           /\ old.refreshInterval
                 # FieldOf(external, dynamicObject, "refreshInterval")
           /\ getValue(properties[ValueOf(old.refreshInterval)], MaxTime)
                 = Defined(30)
    /\ FieldOf(external, dynamicObject, "scope") = Defined("B")
    /\ Resolve(external, properties, dynamicObject, "refreshInterval", MaxTime)
          = Defined(60)

\* ------------------------------------------------------------------------
\* BoundingRectangle (Source/Core/BoundingRectangle.js)
\* ------------------------------------------------------------------------

\* Coordinates are the integers -1 .. MaxCoord; widths and heights too, so
\* that rectangles with a negative extent are among the inputs.
MaxCoord == 1

\* The longest list of points given to fromPoints.
MaxPoints == 3

Coords == -1 .. MaxCoord

\* Math.min, Math.max
Min(a, b) == IF a < b THEN a ELSE b

Max(a, b) == IF a > b THEN a ELSE b

\* the fields of a rectangle object
Rect(x, y, width, height) == [x |-> x, y |-> y, width |-> width, height |-> height]

\* new BoundingRectangle(x, y, width, height): each argument defaults to 0
BoundingRectangle(x, y, width, height) ==
    Rect(ValueOf(defaultValue(x, Defined(0))),
         ValueOf(defaultValue(y, Defined(0))),
         ValueOf(defaultValue(width, Defined(0))),
         ValueOf(defaultValue(height, Defined(0))))

\* new Cartesian2(x, y)
Cartesian2(x, y) == [x |-> x, y |-> y]

\* throw new DeveloperError(...)
Throw == [threw |-> TRUE]

\* return v
Return(v) == [threw |-> FALSE, value |-> v]

\* The functions that write into a result object work on a store of
\* rectangle objects, store[name], and are given the names of their
\* arguments: the result object may be one of the argument objects.
\* "new" is the object made by new BoundingRectangle().

\* BoundingRectangle.union whose width and height are computed from the
\* fields of the objects after result.x and result.y have been written
UnionInPlace(store, left, right, result) ==
    IF IsUndefined(left)
    THEN Throw
    ELSE IF IsUndefined(right)
    THEN Throw
    ELSE LET res == IF IsUndefined(result) THEN "new" ELSE ValueOf(result)
             s0 == IF IsUndefined(result)
                   THEN [store EXCEPT !["new"] =
                            BoundingRectangle(undefined, undefined,
                                              undefined, undefined)]
                   ELSE store
             l == ValueOf(left)
             r == ValueOf(right)
             upperRight == Cartesian2(
                 Max(s0[l].x + s0[l].width, s0[r].x + s0[r].width),
                 Max(s0[l].y + s0[l].height, s0[r].y + s0[r].height))
             s1 == [s0 EXCEPT ![res].x = Min(s0[l].x, s0[r].x)]
             s2 == [s1 EXCEPT ![res].y = Min(s1[l].y, s1[r].y)]
             s3 == [s2 EXCEPT ![res].width =
                       Max(s2[l].x + s2[l].width, s2[r].x + s2[r].width)
                         - s2[res].x]
             s4 == [s3 EXCEPT ![res].height =
                       Max(s3[l].y + s3[l].height, s3[r].y + s3[r].height)
                         - s3[res].y]
         IN  [threw |-> FALSE, value |-> res, store |-> s4]

\* BoundingRectangle.union(left, right, result)
Union(store, left, right, result) ==
    IF IsUndefined(left)
    THEN Throw
    ELSE IF IsUndefined(right)
    THEN Throw
    ELSE LET res == IF IsUndefined(result) THEN "new" ELSE ValueOf(result)
             s0 == IF IsUndefined(result)
                   THEN [store EXCEPT !["new"] =
                            BoundingRectangle(undefined, undefined,
                                              undefined, undefined)]
                   ELSE store
             l == s0[ValueOf(left)]
             r == s0[ValueOf(right)]
             lowerLeft == Cartesian2(Min(l.x, r.x), Min(l.y, r.y))
             upperRight == Cartesian2(Max(l.x + l.width, r.x + r.width),
                                      Max(l.y + l.height, r.y + r.height))
             s1 == [s0 EXCEPT ![res].x = lowerLeft.x]
             s2 == [s1 EXCEPT ![res].y = lowerLeft.y]
             s3 == [s2 EXCEPT ![res].width = upperRight.x - lowerLeft.x]
             s4 == [s3 EXCEPT ![res].height = upperRight.y - lowerLeft.y]
         IN  [threw |-> FALSE, value |-> res, store |-> s4]

\* BoundingRectangle.clone(rect, result)
Clone(store, rect, result) ==
    IF IsUndefined(rect)
    THEN Throw
    ELSE LET r == store[ValueOf(rect)] IN
         IF IsUndefined(result)
         THEN [threw |-> FALSE, value |-> "new",
               store |-> [store EXCEPT !["new"] =
                            BoundingRectangle(Defined(r.x), Defined(r.y),
                                Defined(r.width), Defined(r.height))]]
         ELSE LET res == ValueOf(result)
                  s1 == [store EXCEPT ![res].x = store[ValueOf(rect)].x]
                  s2 == [s1 EXCEPT ![res].y = s1[ValueOf(rect)].y]
                  s3 == [s2 EXCEPT ![res].width = s2[ValueOf(rect)].width]
                  s4 == [s3 EXCEPT ![res].height = s3[ValueOf(rect)].height]
              IN  [threw |-> FALSE, value |-> res, store |-> s4]

\* BoundingRectangle.equals(left, right) on two optional rectangle values
\* that are distinct objects
Equals(left, right) ==
    \/ IsUndefined(left) /\ IsUndefined(right)
    \/ /\ ~IsUndefined(left)
       /\ ~IsUndefined(right)
       /\ ValueOf(left).x = ValueOf(right).x
       /\ ValueOf(left).y = ValueOf(right).y
       /\ ValueOf(left).width = ValueOf(right).width
       /\ ValueOf(left).height = ValueOf(right).height

\* the length test of fromPoints with "<" where the code has "<="
TooFewPositionsBelowOne(positions) ==
    IsUndefined(positions.length) \/ ValueOf(positions.length) < 1

\* typeof positions.length === 'undefined' || positions.length <= 1
TooFewPositions(positions) ==
    IsUndefined(positions.length) \/ ValueOf(positions.length) <= 1

\* the body of the loop of fromPoints with the four tests chained by else
ExtendElse(box, p) ==
    IF p.x < box.minimumX THEN [box EXCEPT !.minimumX = p.x]
    ELSE IF p.x > box.maximumX THEN [box EXCEPT !.maximumX = p.x]
    ELSE IF p.y < box.minimumY THEN [box EXCEPT !.minimumY = p.y]
    ELSE IF p.y > box.maximumY THEN [box EXCEPT !.maximumY = p.y]
    ELSE box

\* the body of the loop of fromPoints: four independent tests
Extend(box, p) ==
    LET b1 == IF p.x < box.minimumX THEN [box EXCEPT !.minimumX = p.x] ELSE box
        b2 == IF p.x > b1.maximumX THEN [b1 EXCEPT !.maximumX = p.x] ELSE b1
        b3 == IF p.y < b2.minimumY THEN [b2 EXCEPT !.minimumY = p.y] ELSE b2
        b4 == IF p.y > b3.maximumY THEN [b3 EXCEPT !.maximumY = p.y] ELSE b3
    IN  b4

\* for (var i = 1; i < length; i++): positions[i] is elems[i + 1]
RECURSIVE ScanPositions(_, _, _, _)
ScanPositions(elems, i, length, box) ==
    IF i < length
    THEN ScanPositions(elems, i + 1, length, Extend(box, elems[i + 1]))
    ELSE box

\* BoundingRectangle.fromPoints(positions)
FromPoints(positions) ==
    IF IsUndefined(positions)
    THEN Throw
    ELSE IF TooFewPositions(ValueOf(positions))
    THEN Throw
    ELSE LET elems == ValueOf(positions).elems
             length == ValueOf(ValueOf(positions).length)
             box == ScanPositions(elems, 1, length,
                        [minimumX |-> elems[1].x, minimumY |-> elems[1].y,
                         maximumX |-> elems[1].x, maximumY |-> elems[1].y])
             width == box.maximumX - box.minimumX
             height == box.maximumY - box.minimumY
         IN  Return(BoundingRectangle(Defined(box.minimumX),
                 Defined(box.minimumY), Defined(width), Defined(height)))

\* BoundingRectangle.intersect with ">=" and "<=" where the code has ">"
\* and "<": rectangles that only touch are reported apart
IntersectStrict(rect1, rect2) ==
    IF IsUndefined(rect1)
    THEN Throw
    ELSE IF IsUndefined(rect2)
    THEN Throw
    ELSE LET r1 == ValueOf(rect1)
             r2 == ValueOf(rect2)
         IN  Return(~(\/ r1.x >= r2.x + r2.width
                      \/ r1.x + r1.width <= r2.x
                      \/ r1.y + r1.height <= r2.y
                      \/ r1.y >= r2.y + r2.height))

\* BoundingRectangle.intersect(rect1, rect2)
Intersect(rect1, rect2) ==
    IF IsUndefined(rect1)
    THEN Throw
    ELSE IF IsUndefined(rect2)
    THEN Throw
    ELSE LET r1 == ValueOf(rect1)
             r2 == ValueOf(rect2)
         IN  Return(~(\/ r1.x > r2.x + r2.width
                      \/ r1.x + r1.width < r2.x
                      \/ r1.y + r1.height < r2.y
                      \/ r1.y > r2.y + r2.height))

\* --- inputs of the geometry functions ---

\* rectangles on the grid, and the two of the documented example
Rects ==
    {Rect(x, y, w, h) : x \in Coords, y \in Coords, w \in Coords, h \in Coords}
        \cup {Rect(0, 0, 2, 2), Rect(3, 3, 1, 1)}

\* a rectangle argument: absent, or a rectangle
RectArguments == {undefined} \cup {Defined(r) : r \in Rects}

\* the result argument: absent, the object also given as an argument
\* ("left", "right", "rect"), or an object of its own ("other")
OtherRect == Rect(MaxCoord, MaxCoord, MaxCoord, MaxCoord)

Points == {Cartesian2(x, y) : x \in Coords, y \in Coords}

\* a JavaScript array with the given elements
Array(elems) == [length |-> Defined(Len(elems)), elems |-> elems]

\* the points of the documented example
ExamplePositions == <<Cartesian2(0, 0), Cartesian2(2, 3), Cartesian2(-1, 5)>>

\* the positions argument: absent, an object without length, or an array
\* of up to MaxPoints points
PositionsArguments ==
    {undefined, Defined([length |-> undefined, elems |-> <<>>]),
     Defined(Array(ExamplePositions))}
        \cup {Defined(Array(e)) :
                e \in UNION {[1 .. n -> Points] : n \in 0 .. MaxPoints}}

\* the objects a call works on: the arguments that are there, the object
\* "other" and room for the one the call may make
ObjectStore(first, second) ==
    [name \in {"first", "second", "other", "new"} |->
        IF name = "first" /\ ~IsUndefined(first) THEN ValueOf(first)
        ELSE IF name = "second" /\ ~IsUndefined(second) THEN ValueOf(second)
        ELSE OtherRect]

\* the reference passed for an argument: undefined when the argument is
\* absent, the name of its object otherwise
Reference(name, argument) ==
    IF IsUndefined(argument) THEN undefined ELSE Defined(name)

\* the reference passed as result: none, one of the arguments, or "other"
ResultReference(result, first, second) ==
    IF result = "none" THEN undefined
    ELSE IF result = "first" THEN Reference("first", first)
    ELSE IF result = "second" THEN Reference("second", second)
    ELSE Defined("other")

\* what is recorded of a call that wrote into a store: whether it threw,
\* the object it returned and the fields of that object
Recorded(call, outcome) ==
    IF outcome.threw
    THEN [call |-> call, threw |-> TRUE]
    ELSE [call |-> call, threw |-> FALSE, returned |-> outcome.value,
          value |-> outcome.store[outcome.value]]

\* what is recorded of a call that returned a value
RecordedValue(call, outcome) ==
    IF outcome.threw
    THEN [call |-> call, threw |-> TRUE]
    ELSE [call |-> call, threw |-> FALSE, value |-> outcome.value]

\* --- the calls ---

\* the documents are not involved in a geometry call
DocumentsUnchanged ==
    UNCHANGED <<external, properties, calls, op, dynamicObject,
                objectToMerge, packet, ret, removed>>

union(left, right, result) ==
    /\ geometry' =
          Recorded([fn |-> "union", left |-> left, right |-> right,
                    result |-> result],
                   Union(ObjectStore(left, right),
                         Reference("first", left), Reference("second", right),
                         ResultReference(result, left, right)))
    /\ DocumentsUnchanged

clone(rect, result) ==
    /\ geometry' =
          Recorded([fn |-> "clone", rect |-> rect, result |-> result],
                   Clone(ObjectStore(rect, undefined),
                         Reference("first", rect),
                         ResultReference(result, rect, undefined)))
    /\ DocumentsUnchanged

equals(left, right) ==
    /\ geometry' =
          RecordedValue([fn |-> "equals", left |-> left, right |-> right],
                        Return(Equals(left, right)))
    /\ DocumentsUnchanged

fromPoints(positions) ==
    /\ geometry' =
          RecordedValue([fn |-> "fromPoints", positions |-> positions],
                        FromPoints(positions))
    /\ DocumentsUnchanged

intersect(rect1, rect2) ==
    /\ geometry' =
          RecordedValue([fn |-> "intersect", rect1 |-> rect1, rect2 |-> rect2],
                        Intersect(rect1, rect2))
    /\ DocumentsUnchanged

\* a behaviour makes one call
GeometryNext ==
    /\ geometry = NoGeometryCall
    /\ \/ \E left \in RectArguments, right \in RectArguments,
             result \in {"none", "first", "second", "other"} :
               union(left, right, result)
       \/ \E rect \in RectArguments, result \in {"none", "first", "other"} :
               clone(rect, result)
       \/ \E left \in RectArguments, right \in RectArguments :
               equals(left, right)
       \/ \E positions \in PositionsArguments : fromPoints(positions)
       \/ \E rect1 \in RectArguments, rect2 \in RectArguments :
               intersect(rect1, rect2)

\* one call to a function of BoundingRectangle
GeometrySpec == Init /\ [][GeometryNext]_vars

\* --- claims on the geometry functions ---

\* the last geometry call was to the function fn
Called(fn) == geometry # NoGeometryCall /\ geometry.call.fn = fn

\* width and height are not negative
NonNegative(rect) == rect.width >= 0 /\ rect.height >= 0

\* C14: fromPoints over a list of at least two points returns the tight
\* axis-aligned bounding box: every point lies inside it and each of its
\* four sides passes through a point.
C14_FromPointsTightBox ==
    (/\ Called("fromPoints")
     /\ ~IsUndefined(geometry.call.positions)
     /\ ~IsUndefined(ValueOf(geometry.call.positions).length)
     /\ ValueOf(ValueOf(geometry.call.positions).length) >= 2)
    => (/\ ~geometry.threw
        /\ LET elems == ValueOf(geometry.call.positions).elems
               r == geometry.value
           IN  /\ \A i \in DOMAIN elems :
                     /\ r.x <= elems[i].x /\ elems[i].x <= r.x + r.width
                     /\ r.y <= elems[i].y /\ elems[i].y <= r.y + r.height
               /\ \E i \in DOMAIN elems : elems[i].x = r.x
               /\ \E i \in DOMAIN elems : elems[i].x = r.x + r.width
               /\ \E i \in DOMAIN elems : elems[i].y = r.y
               /\ \E i \in DOMAIN elems : elems[i].y = r.y + r.height)

\* C14 witness: the documented example, [(0,0),(2,3),(-1,5)], has given
\* {x: -1, y: 0, width: 3, height: 5}
C14_Witness ==
    /\ Called("fromPoints")
    /\ geometry.call.positions = Defined(Array(ExamplePositions))
    /\ ~geometry.threw
    /\ geometry.value = Rect(-1, 0, 3, 5)

\* C15: union of two rectangles of non-negative width and height returns,
\* in the result object when one is supplied (be it left or right itself),
\* the smallest rectangle enclosing both: its lower-left corner is the
\* componentwise minimum of the lower-left corners and its upper-right
\* corner the componentwise maximum of the upper-right corners.
C15_UnionSmallestEnclosing ==
    (/\ Called("union")
     /\ ~IsUndefined(geometry.call.left)
     /\ ~IsUndefined(geometry.call.right)
     /\ NonNegative(ValueOf(geometry.call.left))
     /\ NonNegative(ValueOf(geometry.call.right)))
    => (/\ ~geometry.threw
        /\ geometry.returned = IF geometry.call.result = "none"
                               THEN "new"
                               ELSE geometry.call.result
        /\ LET l == ValueOf(geometry.call.left)
               r == ValueOf(geometry.call.right)
               u == geometry.value
           IN  /\ u.x <= l.x /\ u.x <= r.x /\ u.x \in {l.x, r.x}
               /\ u.y <= l.y /\ u.y <= r.y /\ u.y \in {l.y, r.y}
               /\ u.x + u.width >= l.x + l.width
               /\ u.x + u.width >= r.x + r.width
               /\ u.x + u.width \in {l.x + l.width, r.x + r.width}
               /\ u.y + u.height >= l.y + l.height
               /\ u.y + u.height >= r.y + r.height
               /\ u.y + u.height \in {l.y + l.height, r.y + r.height})

\* C15 witness: the documented example with the operands exchanged and the
\* left object given as result: {3,3,1,1} and {0,0,2,2} give {0,0,4,4},
\* written over the left object
C15_Witness ==
    /\ Called("union")
    /\ geometry.call.left = Defined(Rect(3, 3, 1, 1))
    /\ geometry.call.right = Defined(Rect(0, 0, 2, 2))
    /\ geometry.call.result = "first"
    /\ ~geometry.threw
    /\ geometry.returned = "first"
    /\ geometry.value = Rect(0, 0, 4, 4)

\* C16: fromPoints throws when positions is absent, has no length or holds
\* fewer than two points; union, clone and intersect throw when a required
\* rectangle argument is absent.
C16_GeometryArgumentErrors ==
    /\ (/\ Called("fromPoints")
        /\ \/ IsUndefined(geometry.call.positions)
           \/ IsUndefined(ValueOf(geometry.call.positions).length)
           \/ ValueOf(ValueOf(geometry.call.positions).length) < 2)
         => geometry.threw
    /\ (/\ Called("union")
        /\ \/ IsUndefined(geometry.call.left)
           \/ IsUndefined(geometry.call.right))
         => geometry.threw
    /\ (Called("clone") /\ IsUndefined(geometry.call.rect))
         => geometry.threw
    /\ (/\ Called("intersect")
        /\ \/ IsUndefined(geometry.call.rect1)
           \/ IsUndefined(geometry.call.rect2))
         => geometry.threw

\* C16 witness: fromPoints has thrown on an array of one point
C16_Witness ==
    /\ Called("fromPoints")
    /\ ~IsUndefined(geometry.call.positions)
    /\ ValueOf(geometry.call.positions).length = Defined(1)
    /\ Len(ValueOf(geometry.call.positions).elems) = 1
    /\ geometry.threw

\* the rectangles are strictly apart along the x or the y axis
Separated(r1, r2) ==
    \/ r1.x + r1.width < r2.x
    \/ r2.x + r2.width < r1.x
    \/ r1.y + r1.height < r2.y
    \/ r2.y + r2.height < r1.y

\* C17: intersect of two rectangles of non-negative width and height is
\* false exactly when they are strictly apart along the x or the y axis
\* (rectangles that only touch intersect), and it gives the same answer
\* with its arguments exchanged.
C17_IntersectSeparation ==
    (/\ Called("intersect")
     /\ ~IsUndefined(geometry.call.rect1)
     /\ ~IsUndefined(geometry.call.rect2)
     /\ NonNegative(ValueOf(geometry.call.rect1))
     /\ NonNegative(ValueOf(geometry.call.rect2)))
    => (/\ ~geometry.threw
        /\ geometry.value
             = ~Separated(ValueOf(geometry.call.rect1),
                          ValueOf(geometry.call.rect2))
        /\ geometry.value
             = Intersect(geometry.call.rect2, geometry.call.rect1).value)

\* C17 witness: two rectangles of positive width and height that touch
\* only at a corner have been found to intersect
C17_Witness ==
    /\ Called("intersect")
    /\ ~geometry.threw
    /\ geometry.value = TRUE
    /\ LET r1 == ValueOf(geometry.call.rect1)
           r2 == ValueOf(geometry.call.rect2)
       IN  /\ r1.width > 0 /\ r1.height > 0
           /\ r2.width > 0 /\ r2.height > 0
           /\ r1.x + r1.width = r2.x
           /\ r1.y + r1.height = r2.y

====
